---- MODULE Spec2Model ----
(***************************************************************************)
(* Bakery order service (server.js): an Express application over a single  *)
(* mysql2 connection.  The model has the orders table of the store, the    *)
(* connection manager (connectWithRetry and the 'error' handler), the      *)
(* schema bootstrap (initializeDatabase) and the five request handlers.    *)
(* Every db.query is one step: the store executes the statement and the    *)
(* callback runs.  Handlers of different requests interleave between their *)
(* statements, as they do on the shared connection.                        *)
(***************************************************************************)
EXTENDS Integers, Sequences, FiniteSets, TLC

VARIABLES
    attempts,     \* db.connect calls whose callback has not run yet
    timers,       \* pending setTimeout(connectWithRetry, 5000) timers
    connected,    \* the last db.connect callback reported success
    alive,        \* the process has not been terminated by a thrown error
    storeUp,      \* the store answers statements
    tableExists,  \* CREATE TABLE IF NOT EXISTS orders has been executed
    orders,       \* the rows of table orders
    nextId,       \* AUTO_INCREMENT counter of orders.id
    clock,        \* CURRENT_TIMESTAMP of the store
    boots,        \* initializeDatabase runs in flight: position -> how many
    reqs,         \* request slots: the handler's position and locals
    resp,         \* the response the last step sent, if it sent one
    gone,         \* history: the ids a DELETE has answered success for
    track,        \* history: whether hist is kept
    hist,         \* history: the responses sent to POSTs, in order
    event         \* the code of the 'error' event the last step delivered

vars == <<attempts, timers, connected, alive, storeUp, tableExists, orders,
          nextId, clock, boots, reqs, resp, gone, track, hist, event>>

connVars == <<attempts, timers, connected, alive>>
tableVars == <<tableExists, orders, nextId>>

(***************************************************************************)
(* Bounds of the model.                                                    *)
(***************************************************************************)
MaxInflight == 2   \* request slots (requests being handled at one time)
MaxId == 4         \* AUTO_INCREMENT values handed out
MaxClock == 1      \* ticks of CURRENT_TIMESTAMP
MaxBoots == 1      \* initializeDatabase runs in flight at one time
MaxLoops == 2      \* connection attempts and retry timers outstanding

Slots == 1..MaxInflight

(***************************************************************************)
(* JSON values of a request body.  A missing property is Absent; dates are *)
(* written YYYYMMDD, so that their order is the order of the numbers, and  *)
(* a missing date is 0.  quantity keeps its JSON type: a number, a string  *)
(* (its characters), a boolean or nothing.                                 *)
(***************************************************************************)
Absent == "undefined"

Num(n) == [t |-> "num", n |-> n, s |-> <<>>]
Str(s) == [t |-> "str", n |-> 0, s |-> s]
Bool(b) == [t |-> "bool", n |-> IF b THEN 1 ELSE 0, s |-> <<>>]
NoValue == [t |-> "none", n |-> 0, s |-> <<>>]

\* JavaScript's !v for a string-or-missing property
Falsy(v) == v \in {Absent, ""}

DigitChars == <<"0", "1", "2", "3", "4", "5", "6", "7", "8", "9">>
IsDigit(c) == \E i \in 1..Len(DigitChars) : DigitChars[i] = c
DigitVal(c) == (CHOOSE i \in 1..Len(DigitChars) : DigitChars[i] = c) - 1

RECURSIVE Pow10(_)
Pow10(k) == IF k = 0 THEN 1 ELSE 10 * Pow10(k - 1)

\* length of the longest prefix of s made of digits
RECURSIVE DigitPrefix(_)
DigitPrefix(s) ==
    IF s = <<>> \/ ~IsDigit(Head(s)) THEN 0 ELSE 1 + DigitPrefix(Tail(s))

\* value of a sequence of digits (0 for the empty sequence)
RECURSIVE DigitsValue(_)
DigitsValue(s) ==
    IF s = <<>> THEN 0
    ELSE DigitsValue(SubSeq(s, 1, Len(s) - 1)) * 10 + DigitVal(s[Len(s)])

RECURSIVE BinaryValue(_)
BinaryValue(s) ==
    IF s = <<>> THEN 0
    ELSE BinaryValue(SubSeq(s, 1, Len(s) - 1)) * 2 + DigitVal(s[Len(s)])

Drop(s, k) == SubSeq(s, k + 1, Len(s))

(***************************************************************************)
(* Number(string), as isNaN and < apply it: an optional sign, then either  *)
(* a binary literal 0b..., or digits, an optional fraction and an optional *)
(* exponent.  The value is sign * mant * 10^exp / 10^frac; anything else   *)
(* is NaN.  The empty string is 0.                                         *)
(***************************************************************************)
StringToNumber(str) ==
    LET neg == str # <<>> /\ Head(str) = "-"
        s == IF neg THEN Tail(str) ELSE str
        sign == IF neg THEN -1 ELSE 1
        nan == [nan |-> TRUE, mant |-> 0, exp |-> 0, frac |-> 0]
        ip == DigitPrefix(s)
        afterInt == Drop(s, ip)
        hasDot == afterInt # <<>> /\ Head(afterInt) = "."
        fracPart == IF hasDot THEN Tail(afterInt) ELSE afterInt
        fp == IF hasDot THEN DigitPrefix(fracPart) ELSE 0
        afterFrac == Drop(fracPart, fp)
        hasExp == afterFrac # <<>> /\ Head(afterFrac) = "e"
        expPart == IF hasExp THEN Tail(afterFrac) ELSE afterFrac
        ep == IF hasExp THEN DigitPrefix(expPart) ELSE 0
        rest == Drop(expPart, ep)
        mant == DigitsValue(SubSeq(s, 1, ip) \o SubSeq(fracPart, 1, fp))
    IN  IF str = <<>> THEN [nan |-> FALSE, mant |-> 0, exp |-> 0, frac |-> 0]
        ELSE IF ~neg /\ Len(s) >= 3 /\ s[1] = "0" /\ s[2] = "b"
                /\ \A i \in 3..Len(s) : s[i] \in {"0", "1"}
        THEN [nan |-> FALSE, mant |-> BinaryValue(Drop(s, 2)), exp |-> 0, frac |-> 0]
        ELSE IF ip + fp = 0 \/ (hasExp /\ ep = 0) \/ rest # <<>> THEN nan
        ELSE [nan |-> FALSE, mant |-> sign * mant,
              exp |-> DigitsValue(SubSeq(expPart, 1, ep)), frac |-> fp]

\* Number(v) of a JSON value: true is 1, false is 0, undefined is NaN
ToNumber(q) ==
    CASE q.t = "num" -> [nan |-> FALSE, mant |-> q.n, exp |-> 0, frac |-> 0]
      [] q.t = "bool" -> [nan |-> FALSE, mant |-> q.n, exp |-> 0, frac |-> 0]
      [] q.t = "str" -> StringToNumber(q.s)
      [] OTHER -> [nan |-> TRUE, mant |-> 0, exp |-> 0, frac |-> 0]

\* JavaScript's !quantity
QuantityFalsy(q) ==
    CASE q.t = "num" -> q.n = 0
      [] q.t = "bool" -> q.n = 0
      [] q.t = "str" -> q.s = <<>>
      [] OTHER -> TRUE

\* isNaN(quantity)
IsNaN(q) == ToNumber(q).nan

\* quantity < 1: false when the number is NaN
LessThanOne(q) ==
    LET v == ToNumber(q)
    IN  ~v.nan /\ v.mant * Pow10(v.exp) < Pow10(v.frac)

(***************************************************************************)
(* parseInt(quantity): the value is turned into a string ("true"/"false"   *)
(* for a boolean, the decimal digits for an integer), an optional sign is  *)
(* read, and then the longest prefix of decimal digits; NaN if there is    *)
(* none.                                                                   *)
(***************************************************************************)
ParseIntString(str) ==
    LET neg == str # <<>> /\ Head(str) = "-"
        s == IF neg THEN Tail(str) ELSE str
        k == DigitPrefix(s)
    IN  IF k = 0 THEN [nan |-> TRUE, v |-> 0]
        ELSE [nan |-> FALSE,
              v |-> (IF neg THEN -1 ELSE 1) * DigitsValue(SubSeq(s, 1, k))]

ParseInt(q) ==
    CASE q.t = "num" -> [nan |-> FALSE, v |-> q.n]
      [] q.t = "str" -> ParseIntString(q.s)
      [] OTHER -> [nan |-> TRUE, v |-> 0]

(***************************************************************************)
(* The orders table.                                                       *)
(***************************************************************************)
NoRow ==
    [id |-> 0, order_id |-> "", customer_name |-> "", contact_number |-> "",
     item |-> "", quantity |-> 0, order_date |-> 0, status |-> "",
     created_at |-> 0, updated_at |-> 0]

\* the values of one INSERT: the columns the statement names
NoValues ==
    [order_id |-> "", customer_name |-> "", contact_number |-> "", item |-> "",
     quantity |-> 0, qnan |-> FALSE, order_date |-> 0, status |-> ""]

\* status ENUM('Pending', 'Completed')
StatusEnum == {"Pending", "Completed"}

\* the three rows of sampleData, in the order of the statement
SampleData ==
    << [order_id |-> "ORD001", customer_name |-> "John Smith",
        contact_number |-> "123-456-7890", item |-> "Cake", quantity |-> 2,
        qnan |-> FALSE, order_date |-> 20240115, status |-> "Completed"],
       [order_id |-> "ORD002", customer_name |-> "Emma Johnson",
        contact_number |-> "123-456-7891", item |-> "Bread", quantity |-> 5,
        qnan |-> FALSE, order_date |-> 20240116, status |-> "Pending"],
       [order_id |-> "ORD003", customer_name |-> "Michael Brown",
        contact_number |-> "123-456-7892", item |-> "Muffin", quantity |-> 12,
        qnan |-> FALSE, order_date |-> 20240116, status |-> "Pending"] >>

\* new Date().toISOString().split('T')[0]
Today(c) == 20240117 + c

\* the row an INSERT of vals stores under id at time now; a status outside
\* the ENUM is stored as '' when the store does not run in strict mode
NewRow(vals, id, now) ==
    [id |-> id, order_id |-> vals.order_id, customer_name |-> vals.customer_name,
     contact_number |-> vals.contact_number, item |-> vals.item,
     quantity |-> vals.quantity, order_date |-> vals.order_date,
     status |-> IF vals.status \in StatusEnum THEN vals.status ELSE "",
     created_at |-> now, updated_at |-> now]

\* a table without the UNIQUE key
DupEntryNever(rows, vals) == FALSE

\* order_id VARCHAR(50) NOT NULL UNIQUE: the key an INSERT collides on
DupEntry(rows, vals) == \E r \in rows : r.order_id = vals.order_id

\* SELECT * FROM orders WHERE id = ?
SelectById(rows, id) == {r \in rows : r.id = id}

\* INSERT without IGNORE and without the UNIQUE key
RECURSIVE InsertAll(_, _, _, _)
InsertAll(rows, seq, id, now) ==
    IF seq = <<>> THEN rows
    ELSE InsertAll(rows \cup {NewRow(Head(seq), id, now)}, Tail(seq), id + 1, now)

\* REPLACE INTO: a stored row with the order_id of a new one gives way
InsertReplace(rows, seq, id, now) ==
    {r \in rows : \A k \in 1..Len(seq) : seq[k].order_id # r.order_id}
        \cup {NewRow(seq[k], id + k - 1, now) : k \in 1..Len(seq)}

\* INSERT IGNORE of the rows seq, one after the other: a row whose order_id
\* is already stored is skipped; the k-th row of the statement takes the
\* k-th AUTO_INCREMENT value reserved for the statement
RECURSIVE InsertIgnore(_, _, _, _)
InsertIgnore(rows, seq, id, now) ==
    IF seq = <<>> THEN rows
    ELSE InsertIgnore(
            IF DupEntry(rows, Head(seq)) THEN rows
            ELSE rows \cup {NewRow(Head(seq), id, now)},
            Tail(seq), id + 1, now)

\* ORDER BY order_date DESC, created_at ASC
OrderedBeforeAsc(a, b) ==
    \/ a.order_date > b.order_date
    \/ a.order_date = b.order_date /\ a.created_at <= b.created_at

\* ORDER BY order_date DESC, created_at DESC: a may stand before b
OrderedBefore(a, b) ==
    \/ a.order_date > b.order_date
    \/ a.order_date = b.order_date /\ a.created_at >= b.created_at

\* the result sets SELECT * ... ORDER BY may return for rows: every row
\* once, in an order the ORDER BY clause allows (ties in any order)
SelectAllOrdered(rows) ==
    LET n == Cardinality(rows)
    IN  {s \in [1..n -> rows] :
            /\ \A j, k \in 1..n : j # k => s[j] # s[k]
            /\ \A k \in 1..(n - 1) : OrderedBefore(s[k], s[k + 1])}

(***************************************************************************)
(* Requests.  A slot holds one request being handled: the handler's        *)
(* position (pc) and its locals.  body is req.body of a POST, id is        *)
(* req.params.id (PUT, DELETE) or result.insertId (POST), status is        *)
(* req.body.status of a PUT, row is deletedOrder (DELETE) or               *)
(* orderResults[0] (POST), rows is results of the list query.  When the    *)
(* handler sends the response the slot is free again and resp holds the    *)
(* request with pc = "done", the HTTP status in code and, for a POST's     *)
(* success response, the payload's name in has ("order", "orderId").       *)
(* touched is history: an UPDATE changed the inserted row between the      *)
(* POST's INSERT and its re-read.                                          *)
(***************************************************************************)
NoBody ==
    [order_id |-> Absent, customer_name |-> Absent, contact_number |-> Absent,
     item |-> Absent, quantity |-> NoValue, order_date |-> 0, status |-> Absent]

Idle ==
    [kind |-> "idle", pc |-> "idle", body |-> NoBody, vals |-> NoValues,
     id |-> 0, status |-> "", code |-> 0, has |-> "", row |-> NoRow,
     rows |-> <<>>, touched |-> FALSE]

\* request bodies: a full one and one with every optional property left
\* out; the bodies validation rejects; the bodies that pass validation with
\* a value the table is not meant to hold
FullBody ==
    [order_id |-> "ORD004", customer_name |-> "Ann", contact_number |-> "555",
     item |-> "Pie", quantity |-> Num(2), order_date |-> 20240116,
     status |-> "Completed"]

BareBody ==
    [order_id |-> "ORD001", customer_name |-> "Bob", contact_number |-> Absent,
     item |-> "Tart", quantity |-> Str(<<"3">>), order_date |-> 0,
     status |-> Absent]

PlainBodies == {FullBody, BareBody}

RejectedBodies ==
    { [FullBody EXCEPT !.order_id = Absent],
      [FullBody EXCEPT !.quantity = Num(0)],
      [FullBody EXCEPT !.quantity = Str(<<"a", "b", "c">>)] }

OddBodies ==
    { [FullBody EXCEPT !.customer_name = ""],
      [FullBody EXCEPT !.quantity = Num(-1)],
      [FullBody EXCEPT !.quantity = Str(<<"0", ".", "1", "e", "2">>)],
      [FullBody EXCEPT !.quantity = Bool(TRUE)],
      [FullBody EXCEPT !.status = "Bogus"] }

\* the status values a PUT body carries, and the ids requests address
PlainStatuses == {Absent, "Pending", "Completed", "Bogus"}
OddStatuses == {"", "pending"}
TargetIds == {1}

\* a request arrives in the first free slot
FreeSlot(i) ==
    /\ alive
    /\ reqs[i] = Idle
    /\ \A j \in Slots : j < i => reqs[j] # Idle

Respond(r, code) == [r EXCEPT !.pc = "done", !.code = code, !.vals = NoValues]

\* a response after which the handler runs on
AnswerAndGoOn(i, r) ==
    /\ reqs' = reqs
    /\ resp' = r
    /\ hist' = IF track /\ r.kind = "post" THEN Append(hist, r) ELSE hist
    /\ event' = ""

\* the handler of slot i sends response r: res.json(...)
Answer(i, r) ==
    /\ reqs' = [reqs EXCEPT ![i] = Idle]
    /\ resp' = r
    /\ hist' = IF track /\ r.kind = "post" THEN Append(hist, r) ELSE hist
    /\ event' = ""

\* the handler of slot i issues its next statement and returns
Continue(i, r) ==
    /\ reqs' = [reqs EXCEPT ![i] = r]
    /\ resp' = Idle
    /\ hist' = hist
    /\ event' = ""

\* a health check that needs the table
StoreOrTableFails == ~storeUp \/ ~tableExists

\* a statement fails when the store does not answer; one on orders also
\* when the table does not exist
StoreFails == ~storeUp
TableFails == ~storeUp \/ ~tableExists

(***************************************************************************)
(* POST /api/orders                                                        *)
(***************************************************************************)
MissingRequired(b) ==
    \/ Falsy(b.order_id) \/ Falsy(b.customer_name) \/ Falsy(b.item)
    \/ QuantityFalsy(b.quantity)

\* a quantity check that rejects nothing
BadQuantityNever(b) == FALSE

\* isNaN(quantity) || quantity < 1
BadQuantity(b) == IsNaN(b.quantity) \/ LessThanOne(b.quantity)

\* values without the default of contact_number
PostValuesRaw(b, now) ==
    [order_id |-> b.order_id, customer_name |-> b.customer_name,
     contact_number |-> b.contact_number,
     item |-> b.item,
     quantity |-> ParseInt(b.quantity).v, qnan |-> ParseInt(b.quantity).nan,
     order_date |-> IF b.order_date = 0 THEN Today(now) ELSE b.order_date,
     status |-> IF Falsy(b.status) THEN "Pending" ELSE b.status]

\* const values = [...]
PostValues(b, now) ==
    [order_id |-> b.order_id, customer_name |-> b.customer_name,
     contact_number |-> IF Falsy(b.contact_number) THEN "" ELSE b.contact_number,
     item |-> b.item,
     quantity |-> ParseInt(b.quantity).v, qnan |-> ParseInt(b.quantity).nan,
     order_date |-> IF b.order_date = 0 THEN Today(now) ELSE b.order_date,
     status |-> IF Falsy(b.status) THEN "Pending" ELSE b.status]

PostStart(i, b) ==
    /\ FreeSlot(i)
    /\ nextId <= MaxId
    /\ LET r == [Idle EXCEPT !.kind = "post", !.body = b]
       IN  IF MissingRequired(b) \/ BadQuantity(b)
           THEN Answer(i, Respond(r, 400))
           ELSE Continue(i, [r EXCEPT !.pc = "insert", !.vals = PostValues(b, clock)])
    /\ UNCHANGED <<connVars, storeUp, tableVars, clock, boots, gone, track>>

\* the INSERT fails: the store is away, there is no table, quantity is NaN,
\* or (strict SQL mode) the status is no member of the ENUM
PostInsertError(i) ==
    /\ alive /\ reqs[i].kind = "post" /\ reqs[i].pc = "insert"
    /\ \/ TableFails
       \/ reqs[i].vals.qnan
       \/ reqs[i].vals.status \notin StatusEnum
    /\ Answer(i, Respond(reqs[i], 500))
    /\ UNCHANGED <<connVars, storeUp, tableVars, clock, boots, gone, track>>

\* the INSERT is executed: ER_DUP_ENTRY when the order_id is stored, else
\* the row is stored under the next id and the handler goes on to re-read
PostInsert(i) ==
    /\ alive /\ reqs[i].kind = "post" /\ reqs[i].pc = "insert"
    /\ ~TableFails /\ ~reqs[i].vals.qnan
    /\ IF DupEntry(orders, reqs[i].vals)
       THEN /\ Answer(i, Respond(reqs[i], 409))
            /\ UNCHANGED <<orders, nextId>>
       ELSE /\ orders' = orders \cup {NewRow(reqs[i].vals, nextId, clock)}
            /\ nextId' = nextId + 1
            /\ Continue(i, [reqs[i] EXCEPT !.pc = "reread", !.id = nextId,
                                           !.vals = NoValues])
    /\ UNCHANGED <<connVars, storeUp, tableExists, clock, boots, gone, track>>

\* SELECT * FROM orders WHERE id = insertId, and the success response
PostReread(i) ==
    /\ alive /\ reqs[i].kind = "post" /\ reqs[i].pc = "reread"
    /\ IF TableFails
       THEN Answer(i, Respond([reqs[i] EXCEPT !.has = "orderId"], 200))
       ELSE LET found == SelectById(orders, reqs[i].id)
            IN  Answer(i, Respond([reqs[i] EXCEPT
                                     !.has = "order",
                                     !.row = IF found = {} THEN NoRow
                                             ELSE CHOOSE r \in found : TRUE],
                                  200))
    /\ UNCHANGED <<connVars, storeUp, tableVars, clock, boots, gone, track>>

(***************************************************************************)
(* PUT /api/orders/:id                                                     *)
(***************************************************************************)
\* a check that lets every non-empty status through
InvalidStatusLax(st) == Falsy(st)

\* !status || !['Pending', 'Completed'].includes(status)
InvalidStatus(st) == Falsy(st) \/ st \notin {"Pending", "Completed"}

PutStart(i, id, st) ==
    /\ FreeSlot(i)
    /\ LET r == [Idle EXCEPT !.kind = "put", !.id = id, !.status = st]
       IN  IF InvalidStatus(st)
           THEN Answer(i, Respond(r, 400))
           ELSE Continue(i, [r EXCEPT !.pc = "query"])
    /\ UNCHANGED <<connVars, storeUp, tableVars, clock, boots, gone, track>>

\* the UPDATE without its WHERE clause
UpdateStatusAll(rows, id, st, now) ==
    {[r EXCEPT !.status = st, !.updated_at = now] : r \in rows}

\* UPDATE orders SET status = ?, updated_at = CURRENT_TIMESTAMP WHERE id = ?
UpdateStatus(rows, id, st, now) ==
    {IF r.id = id THEN [r EXCEPT !.status = st, !.updated_at = now] ELSE r :
        r \in rows}

\* affectedRows counting only the rows whose status is still Pending
AffectedRowsPending(rows, id) ==
    Cardinality({r \in SelectById(rows, id) : r.status = "Pending"})

\* result.affectedRows: the rows the WHERE clause matched
AffectedRows(rows, id) == Cardinality(SelectById(rows, id))

\* history: the POSTs waiting to re-read a row the UPDATE has changed
Touch(rs, id, changed) ==
    [j \in Slots |->
        IF changed /\ rs[j].kind = "post" /\ rs[j].pc = "reread" /\ rs[j].id = id
        THEN [rs[j] EXCEPT !.touched = TRUE]
        ELSE rs[j]]

PutUpdate(i) ==
    /\ alive /\ reqs[i].kind = "put" /\ reqs[i].pc = "query"
    /\ IF TableFails
       THEN /\ Answer(i, Respond(reqs[i], 500))
            /\ UNCHANGED orders
       ELSE /\ orders' = UpdateStatus(orders, reqs[i].id, reqs[i].status, clock)
            /\ reqs' = [Touch(reqs, reqs[i].id, orders' # orders) EXCEPT ![i] = Idle]
            /\ resp' = Respond(reqs[i],
                        IF AffectedRows(orders, reqs[i].id) = 0 THEN 404 ELSE 200)
            /\ hist' = hist
            /\ event' = ""
    /\ UNCHANGED <<connVars, storeUp, tableExists, nextId, clock, boots, gone, track>>

(***************************************************************************)
(* DELETE /api/orders/:id                                                  *)
(***************************************************************************)
DeleteStart(i, id) ==
    /\ FreeSlot(i)
    /\ Continue(i, [Idle EXCEPT !.kind = "delete", !.id = id, !.pc = "select"])
    /\ UNCHANGED <<connVars, storeUp, tableVars, clock, boots, gone, track>>

\* SELECT * FROM orders WHERE id = ?: deletedOrder = results[0]
DeleteSelect(i) ==
    /\ alive /\ reqs[i].kind = "delete" /\ reqs[i].pc = "select"
    /\ LET found == SelectById(orders, reqs[i].id)
       IN  IF TableFails THEN Answer(i, Respond(reqs[i], 500))
           ELSE IF found = {} THEN Answer(i, Respond(reqs[i], 404))
           ELSE Continue(i, [reqs[i] EXCEPT !.pc = "delete",
                                            !.row = CHOOSE r \in found : TRUE])
    /\ UNCHANGED <<connVars, storeUp, tableVars, clock, boots, gone, track>>

\* a DELETE that removes nothing
DeleteNothing(rows, id) == rows

\* DELETE FROM orders WHERE id = ?
DeleteById(rows, id) == rows \ SelectById(rows, id)

DeleteExec(i) ==
    /\ alive /\ reqs[i].kind = "delete" /\ reqs[i].pc = "delete"
    /\ IF TableFails
       THEN /\ Answer(i, Respond([reqs[i] EXCEPT !.row = NoRow], 500))
            /\ UNCHANGED <<orders, gone>>
       ELSE /\ orders' = DeleteById(orders, reqs[i].id)
            /\ gone' = gone \cup {reqs[i].id}
            /\ Answer(i, Respond(reqs[i], 200))
    /\ UNCHANGED <<connVars, storeUp, tableExists, nextId, clock, boots, track>>

(***************************************************************************)
(* GET /api/health and GET /api/orders                                     *)
(***************************************************************************)
HealthStart(i) ==
    /\ FreeSlot(i)
    /\ Continue(i, [Idle EXCEPT !.kind = "health", !.pc = "query"])
    /\ UNCHANGED <<connVars, storeUp, tableVars, clock, boots, gone, track>>

\* SELECT 1 as health
HealthQuery(i) ==
    /\ alive /\ reqs[i].kind = "health" /\ reqs[i].pc = "query"
    /\ Answer(i, Respond(reqs[i], IF StoreFails THEN 500 ELSE 200))
    /\ UNCHANGED <<connVars, storeUp, tableVars, clock, boots, gone, track>>

ListStart(i) ==
    /\ FreeSlot(i)
    /\ Continue(i, [Idle EXCEPT !.kind = "list", !.pc = "query"])
    /\ UNCHANGED <<connVars, storeUp, tableVars, clock, boots, gone, track>>

\* SELECT * FROM orders ORDER BY order_date DESC, created_at DESC
ListQuery(i) ==
    /\ alive /\ reqs[i].kind = "list" /\ reqs[i].pc = "query"
    /\ IF TableFails
       THEN Answer(i, Respond(reqs[i], 500))
       ELSE \E res \in SelectAllOrdered(orders) :
                Answer(i, Respond([reqs[i] EXCEPT !.rows = res], 200))
    /\ UNCHANGED <<connVars, storeUp, tableVars, clock, boots, gone, track>>

(***************************************************************************)
(* Connection manager: connectWithRetry and db.on('error').                *)
(***************************************************************************)
BootPcs == {"create", "count", "insert"}
NoBoots == [p \in BootPcs |-> 0]
BootsInFlight == boots["create"] + boots["count"] + boots["insert"]

\* a step of the connection manager, the bootstrap or the environment
\* sends no response
Silent == resp' = Idle /\ hist' = hist /\ event' = ""

\* an error branch that calls initializeDatabase() as well
ConnectFailBoots ==
    /\ alive /\ attempts > 0 /\ ~storeUp
    /\ BootsInFlight < MaxBoots
    /\ attempts' = attempts - 1
    /\ timers' = timers + 1
    /\ boots' = [boots EXCEPT !["create"] = @ + 1]
    /\ Silent
    /\ UNCHANGED <<connected, alive, storeUp, tableVars, clock, reqs, gone, track>>

\* db.connect's callback gets an error: a retry is scheduled
ConnectFail ==
    /\ alive /\ attempts > 0 /\ ~storeUp
    /\ attempts' = attempts - 1
    /\ timers' = timers + 1
    /\ Silent
    /\ UNCHANGED <<connected, alive, storeUp, tableVars, clock, boots, reqs,
                   gone, track>>

\* db.connect's callback gets no error: initializeDatabase() is called and
\* issues CREATE TABLE
ConnectSuccess ==
    /\ alive /\ attempts > 0 /\ storeUp
    /\ BootsInFlight < MaxBoots
    /\ attempts' = attempts - 1
    /\ connected' = TRUE
    /\ boots' = [boots EXCEPT !["create"] = @ + 1]
    /\ Silent
    /\ UNCHANGED <<timers, alive, storeUp, tableVars, clock, reqs, gone, track>>

\* a timer that fires without calling db.connect
RetryTimerLost ==
    /\ alive /\ timers > 0
    /\ timers' = timers - 1
    /\ Silent
    /\ UNCHANGED <<attempts, connected, alive, storeUp, tableVars, clock, boots,
                   reqs, gone, track>>

\* the timer of setTimeout(connectWithRetry, 5000) fires
RetryTimer ==
    /\ alive /\ timers > 0
    /\ timers' = timers - 1
    /\ attempts' = attempts + 1
    /\ Silent
    /\ UNCHANGED <<connected, alive, storeUp, tableVars, clock, boots, reqs,
                   gone, track>>

\* the codes of the 'error' events the connection emits
LostCode == "PROTOCOL_CONNECTION_LOST"
EventCodes == {LostCode, "ECONNRESET"}

\* a test that takes a reset connection for a lost one
IsConnectionLostOrReset(code) == code \in {LostCode, "ECONNRESET"}

\* err.code === 'PROTOCOL_CONNECTION_LOST'
IsConnectionLost(code) == code = LostCode

\* the handler's first branch: connectWithRetry()
ConnectionLost ==
    /\ attempts + timers < MaxLoops
    /\ attempts' = attempts + 1
    /\ UNCHANGED <<timers, alive, storeUp, tableVars, clock, boots, reqs,
                   gone, track>>

\* the handler's second branch: throw err ends the process, and with it
\* every handler, timer and bootstrap run
FatalError ==
    /\ alive' = FALSE
    /\ attempts' = 0
    /\ timers' = 0
    /\ boots' = NoBoots
    /\ reqs' = [i \in Slots |-> Idle]
    /\ UNCHANGED <<storeUp, tableVars, clock, gone, track>>

\* db.on('error', ...): the handler runs on the event with code code
OnError(code) ==
    /\ alive
    /\ event' = code
    /\ connected' = FALSE
    /\ resp' = Idle /\ hist' = hist
    /\ IF IsConnectionLost(code) THEN ConnectionLost ELSE FatalError

\* the established connection breaks and emits 'error'
ErrorEvent(code) == connected /\ OnError(code)

\* the connection breaks while db.connect is still waiting for it
HandshakeError(code) == ~connected /\ attempts > 0 /\ OnError(code)

(***************************************************************************)
(* initializeDatabase                                                      *)
(***************************************************************************)
\* CREATE TABLE IF NOT EXISTS orders; on success the COUNT query is issued
BootCreate ==
    /\ alive /\ boots["create"] > 0
    /\ IF StoreFails
       THEN /\ boots' = [boots EXCEPT !["create"] = @ - 1]
            /\ UNCHANGED tableExists
       ELSE /\ boots' = [boots EXCEPT !["create"] = @ - 1, !["count"] = @ + 1]
            /\ tableExists' = TRUE
    /\ Silent
    /\ UNCHANGED <<connVars, storeUp, orders, nextId, clock, reqs, gone, track>>

\* SELECT COUNT(*): !err && results[0].count === 0 issues the INSERT IGNORE
BootCount ==
    /\ alive /\ boots["count"] > 0
    /\ boots' = IF ~TableFails /\ Cardinality(orders) = 0
                THEN [boots EXCEPT !["count"] = @ - 1, !["insert"] = @ + 1]
                ELSE [boots EXCEPT !["count"] = @ - 1]
    /\ Silent
    /\ UNCHANGED <<connVars, storeUp, tableVars, clock, reqs, gone, track>>

\* INSERT IGNORE INTO orders ... VALUES ? with sampleData
BootInsert ==
    /\ alive /\ boots["insert"] > 0
    /\ nextId <= MaxId
    /\ boots' = [boots EXCEPT !["insert"] = @ - 1]
    /\ IF TableFails
       THEN UNCHANGED <<orders, nextId>>
       ELSE /\ orders' = InsertIgnore(orders, SampleData, nextId, clock)
            /\ nextId' = nextId + Len(SampleData)
    /\ Silent
    /\ UNCHANGED <<connVars, storeUp, tableExists, clock, reqs, gone, track>>

(***************************************************************************)
(* The environment: the store goes away and comes back, time passes.       *)
(***************************************************************************)
StoreDown ==
    /\ storeUp
    /\ storeUp' = FALSE
    /\ Silent
    /\ UNCHANGED <<connVars, tableVars, clock, boots, reqs, gone, track>>

StoreBack ==
    /\ ~storeUp
    /\ storeUp' = TRUE
    /\ Silent
    /\ UNCHANGED <<connVars, tableVars, clock, boots, reqs, gone, track>>

Tick ==
    /\ clock < MaxClock
    /\ clock' = clock + 1
    /\ Silent
    /\ UNCHANGED <<connVars, storeUp, tableVars, boots, reqs, gone, track>>

(***************************************************************************)
(* The specification.  The process has just started: connectWithRetry()    *)
(* has called db.connect, the store is fresh.                              *)
(***************************************************************************)
Start ==
    /\ attempts = 1
    /\ timers = 0
    /\ connected = FALSE
    /\ alive = TRUE
    /\ storeUp \in BOOLEAN
    /\ tableExists = FALSE
    /\ orders = {}
    /\ nextId = 1
    /\ clock = 0
    /\ boots = NoBoots
    /\ reqs = [i \in Slots |-> Idle]
    /\ resp = Idle
    /\ gone = {}
    /\ hist = <<>>
    /\ event = ""

Init == Start /\ track = FALSE

\* the connection manager up to the first connection, the bootstrap and the
\* environment
Background ==
    \/ ConnectFail
    \/ ConnectSuccess
    \/ RetryTimer
    \/ BootCreate
    \/ BootCount
    \/ BootInsert
    \/ StoreDown
    \/ StoreBack
    \/ Tick

\* the five handlers, under well-formed and rejected requests
Next ==
    \/ Background
    \/ \E i \in Slots :
        \/ \E b \in PlainBodies \cup RejectedBodies : PostStart(i, b)
        \/ PostInsertError(i)
        \/ PostInsert(i)
        \/ PostReread(i)
        \/ \E id \in TargetIds, st \in PlainStatuses : PutStart(i, id, st)
        \/ PutUpdate(i)
        \/ \E id \in TargetIds : DeleteStart(i, id)
        \/ DeleteSelect(i)
        \/ DeleteExec(i)
        \/ HealthStart(i)
        \/ HealthQuery(i)
        \/ ListStart(i)
        \/ ListQuery(i)

Spec == Init /\ [][Next]_vars

\* POST and PUT under every body and status of the model
NextInput ==
    \/ Background
    \/ \E i \in Slots :
        \/ \E b \in PlainBodies \cup RejectedBodies \cup OddBodies : PostStart(i, b)
        \/ PostInsertError(i)
        \/ PostInsert(i)
        \/ PostReread(i)
        \/ \E id \in TargetIds, st \in PlainStatuses \cup OddStatuses :
                PutStart(i, id, st)
        \/ PutUpdate(i)

SpecInput == Init /\ [][NextInput]_vars

\* connection loss, reconnects and repeated bootstrap runs under creates,
\* updates and deletes
NextConn ==
    \/ Background
    \/ \E code \in EventCodes : ErrorEvent(code)
    \/ \E i \in Slots :
        \/ \E b \in PlainBodies : PostStart(i, b)
        \/ PostInsertError(i)
        \/ PostInsert(i)
        \/ PostReread(i)
        \/ \E id \in TargetIds : PutStart(i, id, "Pending")
        \/ PutUpdate(i)
        \/ \E id \in TargetIds : DeleteStart(i, id)
        \/ DeleteSelect(i)
        \/ DeleteExec(i)

SpecConn == Init /\ [][NextConn]_vars

\* two POSTs and nothing else, their responses kept in hist
InitPair == Start /\ track = TRUE

PostsSoFar == Len(hist) + Cardinality({i \in Slots : reqs[i].kind = "post"})

NextPair ==
    \/ Background
    \/ \E i \in Slots :
        \/ \E b \in PlainBodies : PostsSoFar < 2 /\ PostStart(i, b)
        \/ PostInsertError(i)
        \/ PostInsert(i)
        \/ PostReread(i)

SpecPair == InitPair /\ [][NextPair]_vars

\* the connection manager and the bootstrap under store outages and
\* connection loss, with health checks as the only requests.  The event
\* loop of the process runs every callback that is ready and every timer
\* that is due, hence the weak fairness of the manager's and the
\* bootstrap's steps; the store and the connection fail as they please.
NextLive ==
    \/ Background
    \/ ErrorEvent(LostCode)
    \/ HandshakeError(LostCode)
    \/ \E i \in Slots :
        \/ HealthStart(i)
        \/ HealthQuery(i)

SpecLive ==
    /\ Init /\ [][NextLive]_vars
    /\ WF_vars(ConnectFail) /\ WF_vars(ConnectSuccess) /\ WF_vars(RetryTimer)
    /\ WF_vars(BootCreate) /\ WF_vars(BootCount) /\ WF_vars(BootInsert)

\* the connection manager when the connection may also break while it
\* is being established
NextLoop ==
    \/ Background
    \/ \E code \in EventCodes :
        \/ ErrorEvent(code)
        \/ HandshakeError(code)
    \/ \E i \in Slots :
        \/ HealthStart(i)
        \/ HealthQuery(i)

SpecLoop == Init /\ [][NextLoop]_vars

\* the callbacks of the request in slot i
Callback(i) ==
    \/ PostInsertError(i) \/ PostInsert(i) \/ PostReread(i)
    \/ PutUpdate(i)
    \/ DeleteSelect(i) \/ DeleteExec(i)
    \/ HealthQuery(i)
    \/ ListQuery(i)

\* the five handlers when every statement issued completes, with a result
\* or with an error, and its callback runs; one body that passes validation
NextFair ==
    \/ Background
    \/ \E i \in Slots :
        \/ \E b \in {BareBody} \cup RejectedBodies : PostStart(i, b)
        \/ \E id \in TargetIds, st \in {"Completed", "Bogus"} : PutStart(i, id, st)
        \/ \E id \in TargetIds : DeleteStart(i, id)
        \/ HealthStart(i)
        \/ ListStart(i)
        \/ Callback(i)

SpecFair == Init /\ [][NextFair]_vars /\ \A i \in Slots : WF_vars(Callback(i))

(***************************************************************************)
(* Properties.                                                             *)
(***************************************************************************)
RowsOf(oid) == {r \in orders : r.order_id = oid}
IsSampleRow(r) == \E k \in 1..Len(SampleData) : SampleData[k].customer_name = r.customer_name
Codes(a, b) == {hist[a].code, hist[b].code}

\* C1 as stated: of two POSTs with the same order_id, no row of it stored
\* beforehand (the bootstrap's sample row) and no delete in between, exactly
\* one is answered success and the other 409, and one row is stored
C1_OneSuccessOneConflict ==
    \A a, b \in 1..Len(hist) :
        (/\ a < b
         /\ hist[a].body.order_id = hist[b].body.order_id
         /\ ~\E r \in RowsOf(hist[a].body.order_id) : IsSampleRow(r))
        => /\ Codes(a, b) = {200, 409}
           /\ Cardinality(RowsOf(hist[a].body.order_id)) = 1

\* C1 as amended: the same, for two POSTs whose INSERT statements the store
\* both executed (neither is answered 500)
C1_OneWinner ==
    \A a, b \in 1..Len(hist) :
        (/\ a < b
         /\ hist[a].body.order_id = hist[b].body.order_id
         /\ ~\E r \in RowsOf(hist[a].body.order_id) : IsSampleRow(r)
         /\ 500 \notin Codes(a, b))
        => /\ Codes(a, b) = {200, 409}
           /\ Cardinality(RowsOf(hist[a].body.order_id)) = 1

C1_Witness ==
    /\ Len(hist) = 2
    /\ hist[1].body.order_id = hist[2].body.order_id
    /\ hist[1].code = 409 /\ hist[2].code = 200
    /\ Cardinality(RowsOf(hist[1].body.order_id)) = 1

\* the step sends a response of this kind with this code
Sends(kind, code) == resp'.kind = kind /\ resp'.code = code

\* C2 as stated: the deletedOrder of a successful DELETE is the content the
\* row has when the DELETE statement removes it, and no later list holds a
\* row of that id
C2_DeletedOrderIsRemovedRow ==
    [][ /\ Sends("delete", 200) =>
            /\ \A r \in orders \ orders' : resp'.row = r
            /\ SelectById(orders', resp'.id) = {}
        /\ Sends("list", 200) =>
            \A k \in 1..Len(resp'.rows) : resp'.rows[k].id \notin gone ]_vars

\* two rows that differ at most in status and updated_at
SameButStatus(r, q) ==
    [r EXCEPT !.status = "", !.updated_at = 0] = [q EXCEPT !.status = "", !.updated_at = 0]

\* C2 as amended: the deletedOrder of a successful DELETE is the content
\* the handler's SELECT read; the row the DELETE statement removes differs
\* from it at most in status and updated_at (an UPDATE in between); no row
\* of that id is stored afterwards and no later list holds one
C2_DeletedOrderIsSelectedRow ==
    [][ /\ Sends("delete", 200) =>
            /\ \E i \in Slots : /\ reqs[i].pc = "delete" /\ reqs'[i] = Idle
                                /\ reqs[i].row = resp'.row
                                /\ reqs[i].id = resp'.id
            /\ resp'.row.id = resp'.id
            /\ \A r \in orders \ orders' : SameButStatus(r, resp'.row)
            /\ SelectById(orders', resp'.id) = {}
            /\ resp'.id \in gone'
        /\ \A i \in Slots :
            reqs[i].pc = "select" /\ reqs'[i].pc = "delete"
                => reqs'[i].row \in SelectById(orders, reqs[i].id)
        /\ \A r \in orders' : r.id \notin gone'
        /\ Sends("list", 200) =>
            \A k \in 1..Len(resp'.rows) : resp'.rows[k].id \notin gone ]_vars

C2_Witness ==
    /\ resp.kind = "delete" /\ resp.code = 200
    /\ resp.row.id = resp.id /\ resp.row.order_id = "ORD001"
    /\ resp.row.status = "Completed" /\ resp.id \in gone
    /\ orders # {} /\ SelectById(orders, resp.id) = {}

\* a valid create request: the required properties present, quantity a
\* positive integer (a number, or a string of digits)
PositiveInteger(q) ==
    \/ q.t = "num" /\ q.n >= 1
    \/ /\ q.t = "str" /\ q.s # <<>> /\ \A k \in 1..Len(q.s) : IsDigit(q.s[k])
       /\ DigitsValue(q.s) >= 1

ValidCreate(b) ==
    /\ b.order_id \notin {Absent, ""} /\ b.customer_name \notin {Absent, ""}
    /\ b.item \notin {Absent, ""} /\ PositiveInteger(b.quantity)

QuantityValue(q) == IF q.t = "num" THEN q.n ELSE DigitsValue(q.s)

\* the returned order has the submitted values, save for the status
EchoesBody(row, b) ==
    /\ row.order_id = b.order_id /\ row.customer_name = b.customer_name
    /\ row.item = b.item /\ row.quantity = QuantityValue(b.quantity)
    /\ row.contact_number = (IF b.contact_number = Absent THEN "" ELSE b.contact_number)
    /\ IF b.order_date = 0 THEN \E c \in 0..clock : row.order_date = Today(c)
       ELSE row.order_date = b.order_date

EchoesStatus(row, b) ==
    row.status = (IF b.status = Absent THEN "Pending" ELSE b.status)

C4_InvalidStatusRejected ==
    [][ /\ resp'.kind = "put" /\ resp'.status \notin {"Pending", "Completed"}
            => /\ resp'.code = 400
               /\ orders' = orders /\ tableExists' = tableExists /\ nextId' = nextId
        /\ \A i \in Slots :
            reqs'[i].kind = "put" => reqs'[i].status \in {"Pending", "Completed"} ]_vars

C4_Witness ==
    /\ resp.kind = "put" /\ resp.code = 400 /\ resp.status = "pending"
    /\ \E r \in orders : r.id = resp.id /\ r.status = "Pending"

\* C5: a PUT with a valid status whose UPDATE the store executes is
\* answered 404 exactly when no row has the id at that moment, and success
\* exactly when one has, whatever its status; a 404 leaves the rows alone
C5_NotFoundIffNoRow ==
    [][ resp'.kind = "put" /\ resp'.status \in {"Pending", "Completed"}
        /\ storeUp /\ tableExists
            => /\ resp'.code = 404 <=> SelectById(orders, resp'.id) = {}
               /\ resp'.code = 200 <=> SelectById(orders, resp'.id) # {}
               /\ resp'.code = 404 => orders' = orders
               /\ resp'.code = 200 =>
                    \E r \in orders' : r.id = resp'.id /\ r.status = resp'.status ]_vars

\* the UPDATE answered success on a row that had the requested status and
\* timestamp already
C5_Witness ==
    /\ resp.kind = "put" /\ resp.code = 200
    /\ \E r \in orders : /\ r.id = resp.id /\ r.status = "Completed"
                         /\ r.order_id = "ORD001" /\ IsSampleRow(r)
                         /\ r.updated_at = 0 /\ resp.status = "Completed"

\* C6: every stored row has status 'Pending' or 'Completed'
C6_StatusInEnum == \A r \in orders : r.status \in {"Pending", "Completed"}

\* the quantity of a body is 0, less than 1 or not numeric
NotPositive(q) ==
    \/ q.t = "none"
    \/ q.t = "num" /\ q.n < 1
    \/ q.t = "str" /\ StringToNumber(q.s).nan
    \/ q.t = "str" /\ LessThanOne(q)

\* C7: a POST whose quantity is 0, less than 1 or not numeric is answered
\* 400, and every stored row has a quantity of at least 1
C7_QuantityAtLeastOne ==
    /\ \A r \in orders : r.quantity >= 1
    /\ resp.kind = "post" /\ NotPositive(resp.body.quantity) => resp.code = 400

\* C8: a successful list returns every row stored when its query runs,
\* each once, by order_date descending and then created_at descending
C8_ListSorted ==
    [][ Sends("list", 200) =>
            /\ {resp'.rows[k] : k \in 1..Len(resp'.rows)} = orders
            /\ Len(resp'.rows) = Cardinality(orders)
            /\ \A j, k \in 1..Len(resp'.rows) :
                j < k =>
                    \/ resp'.rows[j].order_date > resp'.rows[k].order_date
                    \/ /\ resp'.rows[j].order_date = resp'.rows[k].order_date
                       /\ resp'.rows[j].created_at >= resp'.rows[k].created_at ]_vars

C8_Witness ==
    /\ resp.kind = "list" /\ resp.code = 200 /\ Len(resp.rows) = 4
    /\ resp.rows[1].order_date = resp.rows[2].order_date
    /\ resp.rows[1].created_at > resp.rows[2].created_at
    /\ resp.rows[3].order_date > resp.rows[4].order_date

\* C9: no two rows share an order_id, no two rows share an id
C9_UniqueKeys ==
    \A r, q \in orders : r # q => r.order_id # q.order_id /\ r.id # q.id

\* the bootstrap has seeded around a row a POST had stored under ORD001
C9_Witness ==
    /\ \E r \in orders : r.order_id = "ORD001" /\ ~IsSampleRow(r)
    /\ \E r \in orders : r.order_id = "ORD002" /\ IsSampleRow(r)
    /\ connected /\ nextId > Len(SampleData) + 1

\* C10: the health check answers 500 exactly when the store does not answer
\* its query and OK exactly when it does, and changes no row
C10_HealthReflectsStore ==
    [][ resp'.kind = "health" =>
            /\ resp'.code = 500 <=> ~storeUp
            /\ resp'.code = 200 <=> storeUp
            /\ orders' = orders /\ tableExists' = tableExists /\ nextId' = nextId ]_vars

C10_Witness ==
    /\ resp.kind = "health" /\ resp.code = 200 /\ ~tableExists /\ storeUp

\* C11: a DELETE statement that runs after another request's DELETE has
\* removed the row is answered 404, and no id is reported deleted twice
C11_SecondDeleteNotFound ==
    [][ /\ resp'.kind = "delete" /\ resp'.row # NoRow
            /\ SelectById(orders, resp'.id) = {} /\ storeUp /\ tableExists
                => resp'.code = 404
        /\ Sends("delete", 200) => resp'.id \notin gone ]_vars

\* a body validation is to reject: a required property missing or empty,
\* or a quantity that is 0, below 1 or not numeric
FailsValidation(b) ==
    \/ b.order_id \in {Absent, ""}
    \/ b.customer_name \in {Absent, ""}
    \/ b.item \in {Absent, ""}
    \/ NotPositive(b.quantity)

\* C12: a POST or PUT that fails validation is answered 400 on arrival: it
\* never has a statement pending, the 400 is sent by a request that had
\* issued no statement, and the table is as it was
C12_RejectedBeforeStore ==
    [][ /\ resp'.kind = "post" /\ FailsValidation(resp'.body) => resp'.code = 400
        /\ resp'.kind = "put" /\ resp'.status \notin {"Pending", "Completed"}
            => resp'.code = 400
        /\ resp'.kind \in {"post", "put"} /\ resp'.code = 400
            => /\ \A i \in Slots : reqs[i] # Idle => reqs'[i] = reqs[i]
               /\ orders' = orders /\ tableExists' = tableExists /\ nextId' = nextId
        /\ \A i \in Slots :
            reqs'[i].kind = "post" => ~FailsValidation(reqs'[i].body) ]_vars

\* a POST with a non-numeric quantity got its 400 while another request
\* was waiting for the store, over a table with rows
C12_Witness ==
    /\ resp.kind = "post" /\ resp.code = 400
    /\ resp.body.quantity = Str(<<"a", "b", "c">>)
    /\ \E i \in Slots : reqs[i].kind = "post" /\ reqs[i].pc = "reread"
    /\ orders # {}

ErrorCodes == {400, 404, 409, 500}

\* C13: the step that sends an error response leaves the rows as they
\* were, and the request it answers has stored, changed or removed no row
\* before: it is not a POST past its INSERT
C13_ErrorMeansUnchanged ==
    [][ resp'.code \in ErrorCodes =>
            /\ orders' = orders
            /\ \A i \in Slots :
                reqs[i] # Idle /\ reqs'[i] = Idle => reqs[i].pc # "reread" ]_vars

\* a DELETE was answered 500 and the row it addressed is still stored
C13_Witness ==
    /\ resp.kind = "delete" /\ resp.code = 500 /\ tableExists
    /\ \E r \in orders : r.id = resp.id

\* C14: a connection attempt that fails schedules exactly one retry timer,
\* a timer that fires makes exactly one attempt, and once the store is
\* reachable for good the manager gets connected
C14_RetriesUntilConnected ==
    /\ [][ /\ attempts' < attempts /\ ~storeUp
                => timers' = timers + 1 /\ attempts' = attempts - 1
           /\ timers' < timers
                => attempts' = attempts + 1 /\ timers' = timers - 1 ]_vars
    /\ (<>[]storeUp) => <>connected

\* a retry is pending after a failed attempt, and the store is back
C14_Witness == timers = 1 /\ attempts = 0 /\ ~connected /\ storeUp

\* C15: a step starts a bootstrap run exactly when it is a connection
\* attempt that succeeds, and then it starts one run; a failed attempt,
\* a timer, a connection loss start none
C15_OneBootstrapPerConnect ==
    [][ /\ attempts' < attempts /\ storeUp
            => boots'["create"] = boots["create"] + 1 /\ connected'
        /\ attempts' < attempts /\ ~storeUp => boots' = boots
        /\ boots'["create"] > boots["create"]
            => /\ boots'["create"] = boots["create"] + 1
               /\ attempts' = attempts - 1 /\ storeUp ]_vars

\* a bootstrap run started by a reconnect: the table of an earlier run
\* exists already
C15_Witness == connected /\ boots["create"] = 1 /\ tableExists

\* the steps of a bootstrap run, seen from outside
CreateStep == alive' /\ boots'["create"] < boots["create"]
CountStep == alive' /\ boots'["count"] < boots["count"]
InsertStep == alive' /\ boots'["insert"] < boots["insert"]

\* row r holds the k-th row of sampleData
HoldsSample(r, k) ==
    /\ r.order_id = SampleData[k].order_id
    /\ r.customer_name = SampleData[k].customer_name
    /\ r.contact_number = SampleData[k].contact_number
    /\ r.item = SampleData[k].item
    /\ r.quantity = SampleData[k].quantity
    /\ r.order_date = SampleData[k].order_date
    /\ r.status = SampleData[k].status

\* C16 as stated: a bootstrap run changes the table only by storing the
\* three sample rows into an empty one, and leaves a table that has rows
\* as it was
C16_SeedsOnlyEmptyTable ==
    [][ /\ CreateStep \/ CountStep => orders' = orders
        /\ InsertStep =>
            \/ orders' = orders
            \/ /\ orders = {}
               /\ Cardinality(orders') = Len(SampleData)
               /\ \A k \in 1..Len(SampleData) :
                    \E r \in orders' : HoldsSample(r, k) ]_vars

\* C16: a run whose COUNT finds rows issues no INSERT; the INSERT IGNORE
\* of a run keeps every stored row as it is, adds nothing but sample rows,
\* and adds the k-th sample row exactly when no stored row has its order_id
C16_SeedsWithoutOverwriting ==
    [][ /\ CreateStep \/ CountStep => orders' = orders
        /\ CountStep /\ orders # {} => boots'["insert"] = boots["insert"]
        /\ InsertStep =>
            /\ orders \subseteq orders'
            /\ \A r \in orders' \ orders :
                \E k \in 1..Len(SampleData) : HoldsSample(r, k)
            /\ \A k \in 1..Len(SampleData) :
                Cardinality({r \in orders' : r.order_id = SampleData[k].order_id})
                    = IF storeUp /\ tableExists THEN 1
                      ELSE Cardinality({r \in orders :
                                r.order_id = SampleData[k].order_id}) ]_vars

\* the sample rows were stored after a POST's row: the POST came between
\* the run's COUNT and its INSERT IGNORE
C16_Witness ==
    /\ \E r \in orders : r.id = 1 /\ r.order_id = "ORD004"
    /\ \A k \in 1..Len(SampleData) :
        \E r \in orders : HoldsSample(r, k) /\ r.id = k + 1

\* C17: an 'error' event of the established connection with the
\* connection-lost code starts one connection attempt and leaves the
\* process running; one with any other code ends the process and starts
\* no attempt; nothing else ends the process
C17_LostReconnectsOthersTerminate ==
    [][ /\ event' = LostCode
            => alive' /\ attempts' = attempts + 1 /\ timers' = timers
        /\ event' \in EventCodes \ {LostCode}
            => ~alive' /\ attempts' = 0 /\ timers' = 0
        /\ alive /\ ~alive' => event' \in EventCodes \ {LostCode} ]_vars

\* the connection was lost while a request was waiting for the store, and
\* a new attempt is on its way
C17_Witness ==
    /\ event = LostCode /\ alive /\ attempts = 1 /\ ~connected
    /\ tableExists /\ \E i \in Slots : reqs[i].pc = "reread"

\* C20: at most one connection attempt or retry timer is outstanding
C20_SingleLoop == attempts + timers <= 1

\* rows r and q agree in every column an UPDATE of the status is to keep
KeepsIdentity(r, q) ==
    /\ q.id = r.id /\ q.order_id = r.order_id
    /\ q.customer_name = r.customer_name
    /\ q.contact_number = r.contact_number
    /\ q.item = r.item /\ q.quantity = r.quantity
    /\ q.order_date = r.order_date /\ q.created_at = r.created_at

\* C18: a successful PUT leaves every row of another id as it was and the
\* row of its id with the requested status, the current timestamp in
\* updated_at and every other column as before; and no step changes the
\* order_id (or any column but status and updated_at) a stored id goes with
C18_UpdateTouchesStatusOnly ==
    [][ /\ Sends("put", 200) =>
            /\ Cardinality(orders') = Cardinality(orders)
            /\ \A r \in orders :
                IF r.id = resp'.id
                THEN \E q \in orders' :
                        /\ KeepsIdentity(r, q)
                        /\ q.status = resp'.status /\ q.updated_at = clock
                ELSE r \in orders'
        /\ \A r \in orders, q \in orders' : q.id = r.id => KeepsIdentity(r, q) ]_vars

\* a PUT has changed the row of its id, later than the row was created,
\* next to a row that nothing has updated
C18_Witness ==
    /\ resp.kind = "put" /\ resp.code = 200
    /\ \E r \in orders :
        /\ r.id = resp.id /\ r.status = resp.status
        /\ r.updated_at > r.created_at
    /\ \E q \in orders : q.id # resp.id /\ q.status # resp.status

\* the request of slot i as it is but for the mark of an interleaved UPDATE
Untouched(r) == [r EXCEPT !.touched = FALSE]

\* the slots whose request ends in this step
Ended == {i \in Slots : reqs[i] # Idle /\ reqs'[i] = Idle}

\* C19: a step sends at most one response; the step that sends the response
\* of a request ends the request, so that it gets no second one; a request
\* ends with a response only; a request that is not answered on arrival
\* waits for one statement; and when its statements complete it is answered
C19_OneResponsePerRequest ==
    /\ [][ /\ resp' # Idle =>
                /\ resp'.pc = "done" /\ resp'.code \in {200} \cup ErrorCodes
                /\ \/ Ended = {} /\ resp'.code = 400
                   \/ \E i \in Slots : Ended = {i} /\ resp'.kind = reqs[i].kind
           /\ Ended # {} => resp' # Idle
           /\ \A i \in Slots :
                Untouched(reqs'[i]) # Untouched(reqs[i]) /\ i \notin Ended
                    => resp' = Idle /\ reqs'[i].pc \notin {"idle", "done"} ]_vars
    /\ \A i \in Slots : (reqs[i] # Idle) ~> (reqs[i] = Idle)

\* a POST that went through both of its statements has its one response
\* while another request is waiting
C19_Witness ==
    /\ resp.kind = "post" /\ resp.has = "order" /\ resp.code = 200
    /\ \E i \in Slots : reqs[i].kind = "delete" /\ reqs[i].pc = "delete"

====
